---- MODULE Spec2Model ----
(***************************************************************************)
(* Model of the vacuum agent (VacuumAgent.py), its grid environment        *)
(* (Environment.py), its orientation type (Direction.py) and the tick loop *)
(* of the simulation driver (Main.py).                                     *)
(*                                                                         *)
(* Numbers: dust weights and energy rates are floats in the source; the    *)
(* model draws them from integers, which the float arithmetic of the       *)
(* source represents exactly.  The utility of a move is a float with       *)
(* fractional parts; the model computes it exactly as an integer multiple  *)
(* of 1 / UtilityScale (see calculate_move_utility).                       *)
(***************************************************************************)
EXTENDS Integers, Sequences, FiniteSets, TLC

\* ------------------------------------------------------------------------
\* Bounds of the model
\* ------------------------------------------------------------------------

\* Tick budget (settings.time_duration) given to the small grid family.
MaxTicks == 8

\* Tick budget of the long scenario runs.
ScenarioTicks == 30

Abs(n) == IF n < 0 THEN -n ELSE n

Min(a, b) == IF a < b THEN a ELSE b

Max(a, b) == IF a > b THEN a ELSE b

\* ------------------------------------------------------------------------
\* Direction.py
\* ------------------------------------------------------------------------

\* self.directions, in the order the agent iterates them.
directions == <<"NORTH", "EAST", "SOUTH", "WEST">>

Direction == {"NORTH", "EAST", "SOUTH", "WEST"}

angle(d) ==
    CASE d = "NORTH" -> 0
      [] d = "EAST"  -> 90
      [] d = "SOUTH" -> 180
      [] d = "WEST"  -> 270

movement_vector(d) ==
    CASE d = "NORTH" -> <<0, 1>>
      [] d = "EAST"  -> <<1, 0>>
      [] d = "SOUTH" -> <<0, -1>>
      [] d = "WEST"  -> <<-1, 0>>

delta_key(d) ==
    CASE d = "NORTH" -> "delta_u"
      [] d = "EAST"  -> "delta_r"
      [] d = "SOUTH" -> "delta_d"
      [] d = "WEST"  -> "delta_l"

from_angle(a) ==
    LET normalized_angle == a % 360
    IN  CASE normalized_angle = 0   -> "NORTH"
          [] normalized_angle = 90  -> "EAST"
          [] normalized_angle = 180 -> "SOUTH"
          [] normalized_angle = 270 -> "WEST"

left(d) == from_angle(angle(d) - 90)

right(d) == from_angle(angle(d) + 90)

\* Direction.get_relative_position, returning the absolute heading whose
\* movement vector the source returns.
relative_heading(d, sensor_position) ==
    CASE sensor_position = "forward" -> d
      [] sensor_position = "left"    -> left(d)
      [] sensor_position = "right"   -> right(d)

get_relative_position(d, sensor_position) ==
    movement_vector(relative_heading(d, sensor_position))

step_from(pos, d) ==
    <<pos[1] + movement_vector(d)[1], pos[2] + movement_vector(d)[2]>>

\* ------------------------------------------------------------------------
\* VacuumSettings.py
\* ------------------------------------------------------------------------

MAX_SAFE_HEIGHT == 3

MAX_SUCTION_WEIGHT == [normal |-> 1, heavy |-> 5]

\* One line of the settings file per field (settings[0..7]).  A settings
\* record is a function on these names.
SettingsFields ==
    {"time_duration", "rotation_power", "move_power", "normal_vacuum_power",
     "heavy_vacuum_power", "time_power", "sensor_power", "other_power"}

vacuum_power(settings, pressure) ==
    CASE pressure = "normal" -> settings.normal_vacuum_power
      [] pressure = "heavy"  -> settings.heavy_vacuum_power

\* ------------------------------------------------------------------------
\* Environment.py
\* ------------------------------------------------------------------------

\* A grid is a function from the positions of its cells to cell records
\* [delta_l, delta_r, delta_u, delta_d, dust_weight, cleaned]; the texture
\* column is loaded but never read afterwards and is left out.
load_cell(dl, dr, du, dd, dust) ==
    [delta_l |-> dl, delta_r |-> dr, delta_u |-> du, delta_d |-> dd,
     dust_weight |-> dust, cleaned |-> FALSE]

\* get_cell returns the record or None: has_cell is "get_cell(...) is not
\* None" (a cell record is a non-empty dict, hence truthy).
has_cell(env, pos) == pos \in DOMAIN env

get_cell(env, pos) == env[pos]

\* Variant of get_sucked that takes the pressure off the dust weight when
\* the pressure is not enough to clean the cell.
get_sucked_partial(env, pos, pressure) ==
    IF ~has_cell(env, pos)
    THEN env
    ELSE IF 0 >= env[pos].dust_weight - pressure
         THEN [env EXCEPT ![pos].dust_weight = 0, ![pos].cleaned = TRUE]
         ELSE [env EXCEPT ![pos].dust_weight = @ - pressure]

get_sucked(env, pos, pressure) ==
    IF ~has_cell(env, pos)
    THEN env
    ELSE LET dust_weight == env[pos].dust_weight
         IN  IF 0 >= dust_weight - pressure
             THEN [env EXCEPT ![pos].dust_weight = 0, ![pos].cleaned = TRUE]
             ELSE env

\* ------------------------------------------------------------------------
\* VacuumAgent.py: the agent, as a record of its fields plus the
\* environment it acts on.  The operations below are functions from such a
\* record to the record after the call.
\* ------------------------------------------------------------------------

\* dict assignment  f[k] = v
Put(f, k, v) == [x \in DOMAIN f \cup {k} |-> IF x = k THEN v ELSE f[x]]

\* self.current_path is None, or a list of directions.
NoPath == [present |-> FALSE, steps |-> <<>>]

SomePath(steps) == [present |-> TRUE, steps |-> steps]

\* truthiness of self.current_path: neither None nor the empty list
path_truthy(p) == p.present /\ p.steps # <<>>

\* VacuumAgent.__init__, together with the environment the driver passes to
\* every call (env).  The last six fields are bookkeeping of the model, not
\* fields of the agent: the number of charged sensor reads, the suction
\* charges made so far (position, pressure, tick), the index of the
\* driver's current tick, the number of times decide_action was entered and
\* the number of route searches made in that tick, and the controller
\* branch that ended it.
new_agent(settings, env) ==
    [settings        |-> settings,
     env             |-> env,
     position        |-> <<0, 0>>,
     direction       |-> "NORTH",
     power_consumed  |-> 0,
     cleaned_cells   |-> {},
     dirty_cells     |-> {},
     map             |-> << >>,
     visited_cells   |-> << >>,
     last_visit_time |-> << >>,
     visit_count     |-> << >>,
     time            |-> 0,
     current_path    |-> NoPath,
     sensor_reads    |-> 0,
     sucks           |-> {},
     tick            |-> 0,
     entries         |-> 0,
     searches        |-> 0,
     branch          |-> "none"]

\* number of 90-degree turns on the shortest rotation from one heading to
\* another (rotate and calculate_move_utility compute it the same way)
quarter_turns(from_dir, to_dir) ==
    LET diff0 == (angle(to_dir) - angle(from_dir)) % 360
        diff  == IF diff0 > 180 THEN diff0 - 360 ELSE diff0
    IN  Abs(diff) \div 90

\* Variant of rotate that charges one rotation whatever the angle.
rotate_flat_charge(s, target_direction) ==
    [s EXCEPT !.power_consumed = @ + s.settings.rotation_power,
              !.direction = target_direction]

rotate(s, target_direction) ==
    LET rotations == quarter_turns(s.direction, target_direction)
    IN  [s EXCEPT !.power_consumed = @ + rotations * s.settings.rotation_power,
                  !.direction = target_direction]

\* Variant of move_forward that advances two cells where the grid has
\* them.
move_forward_leap(s) ==
    IF has_cell(s.env, step_from(step_from(s.position, s.direction), s.direction))
    THEN [s EXCEPT !.position = step_from(step_from(s.position, s.direction), s.direction),
                   !.power_consumed = @ + s.settings.move_power]
    ELSE IF has_cell(s.env, step_from(s.position, s.direction))
         THEN [s EXCEPT !.position = step_from(s.position, s.direction),
                        !.power_consumed = @ + s.settings.move_power]
         ELSE s

move_forward(s) ==
    LET new_pos == step_from(s.position, s.direction)
    IN  IF has_cell(s.env, new_pos)
        THEN [s EXCEPT !.position = new_pos,
                       !.power_consumed = @ + s.settings.move_power]
        ELSE s

\* Variant of charge_sensor that subtracts the sensing cost.
charge_sensor_refund(s) ==
    [s EXCEPT !.power_consumed = @ - s.settings.sensor_power,
              !.sensor_reads = @ + 1]

charge_sensor(s) ==
    [s EXCEPT !.power_consumed = @ + s.settings.sensor_power,
              !.sensor_reads = @ + 1]

\* sense_height: the agent after the (always charged) read, whether a
\* height came back, and the height.
sense_height(s, sensor_position) ==
    LET s1 == charge_sensor(s)
    IN  IF ~has_cell(s.env, s.position)
        THEN [agent |-> s1, ok |-> FALSE, height |-> 0]
        ELSE [agent |-> s1, ok |-> TRUE,
              height |-> get_cell(s.env, s.position)
                             [delta_key(relative_heading(s.direction, sensor_position))]]

cached_dust(s, pos) ==
    pos \in DOMAIN s.map /\ "dust_weight" \in DOMAIN s.map[pos]

\* Variant of sense_dust that reads the grid on every call instead of the
\* dust weight cached in the map.
sense_dust_uncached(s, sensor_position) ==
    LET target_pos ==
            IF sensor_position = "current"
            THEN s.position
            ELSE <<s.position[1] + get_relative_position(s.direction, sensor_position)[1],
                   s.position[2] + get_relative_position(s.direction, sensor_position)[2]>>
    IN  IF has_cell(s.env, target_pos)
        THEN [agent |-> charge_sensor(s), ok |-> TRUE, position |-> target_pos,
              dust_weight |-> get_cell(s.env, target_pos).dust_weight]
        ELSE [agent |-> charge_sensor(s), ok |-> FALSE, position |-> target_pos,
              dust_weight |-> 0]

\* sense_dust: the agent after the call, whether a reading came back, and
\* the reading (position, dust weight).
sense_dust(s, sensor_position) ==
    LET target_pos ==
            IF sensor_position = "current"
            THEN s.position
            ELSE <<s.position[1] + get_relative_position(s.direction, sensor_position)[1],
                   s.position[2] + get_relative_position(s.direction, sensor_position)[2]>>
    IN  IF cached_dust(s, target_pos)
        THEN [agent |-> s, ok |-> TRUE, position |-> target_pos,
              dust_weight |-> s.map[target_pos].dust_weight]
        ELSE IF has_cell(s.env, target_pos)
             THEN [agent |-> charge_sensor(s), ok |-> TRUE, position |-> target_pos,
                   dust_weight |-> get_cell(s.env, target_pos).dust_weight]
             ELSE [agent |-> charge_sensor(s), ok |-> FALSE, position |-> target_pos,
                   dust_weight |-> 0]

\* Variant of suck_dust without the test "not already cleaned".
suck_dust_unguarded(s, pressure) ==
    [s EXCEPT !.power_consumed = @ + vacuum_power(s.settings, pressure),
              !.env = get_sucked(@, s.position, MAX_SUCTION_WEIGHT[pressure]),
              !.sucks = @ \cup {<<s.position, pressure, s.tick>>}]

suck_dust(s, pressure) ==
    IF s.position \notin s.cleaned_cells
    THEN [s EXCEPT !.power_consumed = @ + vacuum_power(s.settings, pressure),
                   !.env = get_sucked(@, s.position, MAX_SUCTION_WEIGHT[pressure]),
                   !.sucks = @ \cup {<<s.position, pressure, s.tick>>}]
    ELSE s

\* The dirty/cleaned reclassification update_memory applies to a position
\* whose dust weight it has just recorded.
classify(s, pos, dust_weight) ==
    IF dust_weight > 0
    THEN [s EXCEPT !.dirty_cells = @ \cup {pos}]
    ELSE IF pos \in s.dirty_cells /\ dust_weight = 0
         THEN [s EXCEPT !.dirty_cells = @ \ {pos},
                        !.cleaned_cells = @ \cup {pos}]
         ELSE s

\* map[pos]['dust_weight'] = dust_weight; map[pos]['cleaned'] = dust_weight == 0
record_dust(s, pos, dust_weight) ==
    LET entry0 == IF pos \in DOMAIN s.map THEN s.map[pos] ELSE << >>
        entry1 == Put(entry0, "dust_weight", dust_weight)
        entry2 == Put(entry1, "cleaned", dust_weight = 0)
    IN  [s EXCEPT !.map = Put(@, pos, entry2)]

\* One round of the loop "for direction in ['forward', 'left', 'right']"
\* that senses the heights around the current cell, given the reading
\* sense_height returned.
store_height(r, sensor_position) ==
    IF r.ok
    THEN [r.agent EXCEPT
            !.map = Put(@, r.agent.position,
                        Put(@[r.agent.position],
                            delta_key(relative_heading(r.agent.direction, sensor_position)),
                            r.height))]
    ELSE r.agent

record_height(s, sensor_position) ==
    store_height(sense_height(s, sensor_position), sensor_position)

\* Variant of the round of the adjacent cells loop that records a cell
\* whether or not the reading came back.
store_adjacent_unchecked(r) ==
    classify(record_dust(r.agent, r.position, r.dust_weight),
             r.position, r.dust_weight)

\* One round of the loop "for sensor_position in ['forward', 'left',
\* 'right']" that senses the adjacent cells, given the reading sense_dust
\* returned.
store_adjacent(r) ==
    IF r.ok
    THEN classify(record_dust(r.agent, r.position, r.dust_weight),
                  r.position, r.dust_weight)
    ELSE r.agent

record_adjacent(s, sensor_position) ==
    store_adjacent(sense_dust(s, sensor_position))

\* Start of update_memory: "Update time and visit tracking" and "Record
\* visit if first time".
record_visit(s) ==
    [s EXCEPT
        !.time = @ + 1,
        !.last_visit_time = Put(@, s.position, s.time + 1),
        !.visit_count = Put(@, s.position,
                            (IF s.position \in DOMAIN @ THEN @[s.position] ELSE 0) + 1),
        !.visited_cells = IF \E i \in 1..Len(@) : @[i] = s.position
                          THEN @ ELSE Append(@, s.position)]

\* The block "if current_cell_info:" of update_memory, given the reading
\* sense_dust(env, 'current') returned.
record_current(current_cell_info) ==
    IF current_cell_info.ok
    THEN classify(
            record_height(
                record_height(
                    record_height(
                        record_dust(current_cell_info.agent,
                                    current_cell_info.position,
                                    current_cell_info.dust_weight),
                        "forward"),
                    "left"),
                "right"),
            current_cell_info.position, current_cell_info.dust_weight)
    ELSE current_cell_info.agent

update_memory(s) ==
    record_adjacent(
        record_adjacent(
            record_adjacent(
                record_current(sense_dust(record_visit(s), "current")),
                "forward"),
            "left"),
        "right")

manhattan_distance(pos1, pos2) == Abs(pos1[1] - pos2[1]) + Abs(pos1[2] - pos2[2])

\* ---- Pathfinding ----

\* The result of a search: no route (None), or a list of directions.
NoRoute == [found |-> FALSE, path |-> << >>]

Route(path) == [found |-> TRUE, path |-> path]

\* Order of the heap entries (f_score, position): Python compares the
\* tuples lexicographically, f first, then x, then y.
heap_less(e1, e2) ==
    \/ e1.f < e2.f
    \/ e1.f = e2.f /\ e1.pos[1] < e2.pos[1]
    \/ e1.f = e2.f /\ e1.pos[1] = e2.pos[1] /\ e1.pos[2] < e2.pos[2]

\* heapq.heappop: the least entry of the heap.  Positions are unique in
\* the heap (in_open_set guards every push), so the least entry is unique.
heappop(open_set) ==
    CHOOSE e \in open_set : \A o \in open_set : o = e \/ heap_less(e, o)

\* Variant of reconstruct_path whose loop stops one link early and so
\* leaves out the first move of the route.
RECURSIVE reconstruct_path_short(_, _)
reconstruct_path_short(came_from, current_pos) ==
    IF current_pos \in DOMAIN came_from
       /\ came_from[current_pos].prev \in DOMAIN came_from
    THEN Append(reconstruct_path_short(came_from, came_from[current_pos].prev),
                came_from[current_pos].dir)
    ELSE << >>

RECURSIVE reconstruct_path(_, _)
reconstruct_path(came_from, current_pos) ==
    IF current_pos \in DOMAIN came_from
    THEN Append(reconstruct_path(came_from, came_from[current_pos].prev),
                came_from[current_pos].dir)
    ELSE << >>

\* Variant of edge_usable without the test of the height difference.
edge_usable_any_height(s, current_pos, next_dir) ==
    /\ step_from(current_pos, next_dir) \in DOMAIN s.map
    /\ delta_key(next_dir) \in DOMAIN s.map[current_pos]

\* Whether the search may step from current_pos in direction next_dir:
\* the three "skip" tests on the agent's map.
edge_usable(s, current_pos, next_dir) ==
    /\ step_from(current_pos, next_dir) \in DOMAIN s.map
    /\ delta_key(next_dir) \in DOMAIN s.map[current_pos]
    /\ Abs(s.map[current_pos][delta_key(next_dir)]) <= MAX_SAFE_HEIGHT

\* One round of "for next_dir in self.directions" for the direction of
\* index i, on the search state st = [open_set, closed_set, g_score,
\* came_from]; in_open_set is the set of positions of open_set.
a_star_relax(s, target_pos, st, current_pos, next_dir) ==
    LET next_pos == step_from(current_pos, next_dir)
        tentative_g_score == st.g_score[current_pos] + 1
    IN  IF next_pos \in st.closed_set THEN st
        ELSE IF ~edge_usable(s, current_pos, next_dir) THEN st
        ELSE IF next_pos \in DOMAIN st.g_score /\ tentative_g_score >= st.g_score[next_pos]
             THEN st
        ELSE [st EXCEPT
                !.came_from = Put(@, next_pos, [prev |-> current_pos, dir |-> next_dir]),
                !.g_score = Put(@, next_pos, tentative_g_score),
                !.open_set =
                    IF \E e \in @ : e.pos = next_pos
                    THEN @
                    ELSE @ \cup {[f |-> tentative_g_score
                                        + manhattan_distance(next_pos, target_pos),
                                  pos |-> next_pos]}]

\* The four rounds of "for next_dir in self.directions" on the cell popped
\* from the heap.
a_star_expand(s, target_pos, st, current_pos) ==
    a_star_relax(s, target_pos,
        a_star_relax(s, target_pos,
            a_star_relax(s, target_pos,
                a_star_relax(s, target_pos, st, current_pos, directions[1]),
                current_pos, directions[2]),
            current_pos, directions[3]),
        current_pos, directions[4])

\* The loop "while open_set": a_star_loop tests the heap and pops its least
\* entry, a_star_visit is the body of the loop for the popped entry e.
RECURSIVE a_star_loop(_, _, _)
a_star_visit(s, target_pos, st, e) ==
    IF e.pos = target_pos
    THEN Route(reconstruct_path(st.came_from, e.pos))
    ELSE a_star_loop(s, target_pos,
                     a_star_expand(s, target_pos,
                                   [st EXCEPT !.open_set = @ \ {e},
                                              !.closed_set = @ \cup {e.pos}],
                                   e.pos))

a_star_loop(s, target_pos, st) ==
    IF st.open_set = {}
    THEN NoRoute
    ELSE a_star_visit(s, target_pos, st, heappop(st.open_set))

a_star_pathfind(s, target_pos) ==
    a_star_loop(s, target_pos,
                [open_set   |-> {[f |-> manhattan_distance(s.position, target_pos),
                                  pos |-> s.position]},
                 closed_set |-> {},
                 g_score    |-> Put(<< >>, s.position, 0),
                 came_from  |-> << >>])

\* The loop "for dirt_pos in self.dirty_cells" of find_path_to_dirt, run
\* over the cells in the sequence order: it keeps the first cell whose
\* distance is below min_distance.  closest_dirt = << >> stands for None,
\* and min_distance is float('inf') exactly as long as closest_dirt is None.
RECURSIVE closest_dirt_scan(_, _, _, _)
closest_dirt_scan(s, order, closest_dirt, min_distance) ==
    IF order = << >>
    THEN closest_dirt
    ELSE IF closest_dirt = << >>
            \/ manhattan_distance(s.position, Head(order)) < min_distance
         THEN closest_dirt_scan(s, Tail(order), Head(order),
                                manhattan_distance(s.position, Head(order)))
         ELSE closest_dirt_scan(s, Tail(order), closest_dirt, min_distance)

\* Variant of closest_dirt_candidates that lets the loop end up with any
\* dirty cell.
closest_dirt_candidates_any(s) == s.dirty_cells

\* The dirty cells find_path_to_dirt can end up with as closest_dirt: the
\* loop keeps the first cell of least distance in the iteration order of
\* the set dirty_cells, an order the language leaves unspecified, so any
\* cell of least distance can be the one.
closest_dirt_candidates(s) ==
    {p \in s.dirty_cells :
        \A q \in s.dirty_cells :
            manhattan_distance(s.position, p) <= manhattan_distance(s.position, q)}

\* find_path_to_dirt, given the cell the loop ended up with.
find_path_to_dirt(s, closest_dirt) ==
    IF s.dirty_cells = {}
    THEN NoRoute
    ELSE a_star_pathfind(s, closest_dirt)

\* ---- Decision making ----

\* Variant of calculate_curiosity_factor without the factor
\* (1 - dirty_ratio): 0.1 + 0.9 * cleaning_ratio.
calculate_curiosity_factor_no_dirty_ratio(s) ==
    LET known_cells == Cardinality(DOMAIN s.map)
        cleaned == Cardinality(s.cleaned_cells)
        den == 10 * known_cells * known_cells
        num == known_cells * known_cells + 9 * cleaned * known_cells
    IN  IF known_cells = 0
        THEN [num |-> 1, den |-> 2]
        ELSE [num |-> Min(den, Max(known_cells * known_cells, num)), den |-> den]

\* calculate_curiosity_factor, as the exact fraction num / den.
calculate_curiosity_factor(s) ==
    LET known_cells == Cardinality(DOMAIN s.map)
        cleaned == Cardinality(s.cleaned_cells)
        dirty == Cardinality(s.dirty_cells)
        \* 0.1 + 0.9 * (cleaned / known) * (1 - dirty / known), over 10 * known^2
        den == 10 * known_cells * known_cells
        num == known_cells * known_cells + 9 * cleaned * (known_cells - dirty)
    IN  IF known_cells = 0
        THEN [num |-> 1, den |-> 2]
        ELSE [num |-> Min(den, Max(known_cells * known_cells, num)), den |-> den]

\* curiosity_factor < 0.7
curiosity_below_threshold(c) == 10 * c.num < 7 * c.den

\* calculate_frontier_value, as the number of unmapped neighbours (the
\* source returns this number divided by 4.0).
calculate_frontier_value(s, pos) ==
    IF pos \notin DOMAIN s.map
    THEN 0
    ELSE Cardinality({i \in 1..4 : step_from(pos, directions[i]) \notin DOMAIN s.map})

\* Utilities are exact multiples of 1 / UtilityScale(s): every operand of
\* calculate_move_utility is an integer, a quarter, a fifth, 50/(t+1) with
\* t < 10, or such a number times the curiosity fraction.
UtilityScale(s) == 1260 * calculate_curiosity_factor(s).den

\* Variant of unsafe_move that compares the signed height difference.
unsafe_move_signed(s, direction) ==
    /\ has_cell(s.env, s.position)
    /\ get_cell(s.env, s.position)[delta_key(direction)] > MAX_SAFE_HEIGHT

\* "Check height safety" of calculate_move_utility: the move would cross a
\* height delta of the current cell that is too large.
unsafe_move(s, direction) ==
    /\ has_cell(s.env, s.position)
    /\ Abs(get_cell(s.env, s.position)[delta_key(direction)]) > MAX_SAFE_HEIGHT

\* calculate_move_utility, times UtilityScale(s).
calculate_move_utility(s, direction) ==
    LET target_pos == step_from(s.position, direction)
        curiosity == calculate_curiosity_factor(s)
        scale == UtilityScale(s)
        rotation_cost ==
            IF direction # s.direction
            THEN quarter_turns(s.direction, direction) * s.settings.rotation_power
            ELSE 0
        dirty_bonus ==
            IF target_pos \in DOMAIN s.map /\ s.map[target_pos].dust_weight > 0
            THEN 75 ELSE 0
        unexplored_bonus ==
            IF \E i \in 1..Len(s.visited_cells) : s.visited_cells[i] = target_pos
            THEN 0 ELSE 30
        near == {p \in s.dirty_cells : manhattan_distance(target_pos, p) <= 2}
        nearby_dirt_bonus ==
            3 * (3 * Cardinality(near)
                 - Cardinality({p \in near : manhattan_distance(target_pos, p) = 1})
                 - 2 * Cardinality({p \in near : manhattan_distance(target_pos, p) = 2}))
        power_penalty == (s.settings.move_power + rotation_cost) * 5
        visited_before == target_pos \in DOMAIN s.last_visit_time
        time_since_visit == IF visited_before THEN s.time - s.last_visit_time[target_pos] ELSE 0
        \* 50.0 / (time_since_visit + 1), times 1260
        recency_penalty_1260 ==
            IF visited_before /\ time_since_visit < 10
            THEN (1260 * 50) \div (time_since_visit + 1)
            ELSE 0
        \* the three exploration values, each times 20
        recency_value_20 ==
            IF ~visited_before THEN 40 * 20
            ELSE IF time_since_visit < 10 THEN 0
            ELSE Min(30 * 20, 4 * time_since_visit)
        unknown_neighbors == calculate_frontier_value(s, target_pos)
        frontier_value_20 == unknown_neighbors * 5 * 35
        clean_known_penalty ==
            IF unknown_neighbors = 0 /\ get_cell(s.env, target_pos).cleaned THEN 100 ELSE 0
        counted == target_pos \in DOMAIN s.visit_count
        frequency_penalty == IF counted THEN 10 * (s.visit_count[target_pos] - 1) ELSE 0
        frequency_value_20 == IF counted THEN 0 ELSE 35 * 20
        whole == dirty_bonus + unexplored_bonus + nearby_dirt_bonus - power_penalty
                 - clean_known_penalty - frequency_penalty
    IN  IF ~has_cell(s.env, target_pos) THEN -100 * scale
        ELSE IF unsafe_move(s, direction) THEN -100 * scale
        ELSE whole * scale
             - recency_penalty_1260 * curiosity.den
             + 63 * (recency_value_20 + frontier_value_20 + frequency_value_20) * curiosity.num

\* Variant of max(utilities, key=utilities.get) that returns the last
\* direction of greatest utility.
best_of_last(u) ==
    CHOOSE i \in 1..4 :
        /\ \A j \in 1..4 : u[j] <= u[i]
        /\ \A j \in (i + 1)..4 : u[j] < u[i]

\* max(utilities, key=utilities.get): the first direction of greatest
\* utility in the insertion order of the dict, which is the order of
\* self.directions.  u[i] is the utility of directions[i].
best_of(u) ==
    CHOOSE i \in 1..4 :
        /\ \A j \in 1..4 : u[j] <= u[i]
        /\ \A j \in 1..(i - 1) : u[j] < u[i]

pick_best(u, best) == [best_direction |-> directions[best], best_utility |-> u[best]]

decide_next_move(s) ==
    pick_best([i \in 1..4 |-> calculate_move_utility(s, directions[i])],
              best_of([i \in 1..4 |-> calculate_move_utility(s, directions[i])]))

\* "If still dirty, use heavy suction", given the second reading of the
\* current cell, and "Mark as cleaned".
clean_heavy(again) ==
    IF again.ok /\ again.dust_weight > 0
    THEN suck_dust(again.agent, "heavy")
    ELSE again.agent

mark_cleaned(s) == [s EXCEPT !.cleaned_cells = @ \cup {s.position}]

\* "Check if current cell needs cleaning", given the first reading of the
\* current cell.
clean_if_dirty(current_dust) ==
    IF current_dust.ok /\ current_dust.dust_weight > 0
       /\ current_dust.agent.position \notin current_dust.agent.cleaned_cells
    THEN mark_cleaned(
            clean_heavy(sense_dust(suck_dust(current_dust.agent, "normal"), "current")))
    ELSE current_dust.agent

\* Variant of the clean step without the heavy suction.
clean_step_normal_only(s) ==
    IF sense_dust(s, "current").ok /\ sense_dust(s, "current").dust_weight > 0
       /\ s.position \notin s.cleaned_cells
    THEN [suck_dust(sense_dust(s, "current").agent, "normal") EXCEPT
             !.cleaned_cells = @ \cup {s.position}]
    ELSE sense_dust(s, "current").agent

\* The clean step of decide_action.
clean_step(s) == clean_if_dirty(sense_dust(s, "current"))

\* Variant of the route-following step that keeps the route step of a
\* successful move.
follow_step_keeps_route(s) ==
    IF s.current_path.steps[1] # s.direction
    THEN [rotate(s, s.current_path.steps[1]) EXCEPT !.branch = "route_rotate"]
    ELSE IF has_cell(s.env, step_from(s.position, s.direction))
         THEN [move_forward(s) EXCEPT !.branch = "route_move"]
         ELSE [move_forward(s) EXCEPT !.current_path = NoPath,
                                      !.branch = "route_blocked"]

\* The route-following step of decide_action ("If following a path,
\* continue"), taken when current_path is a non-empty list.
follow_step(s) ==
    LET next_direction == s.current_path.steps[1]
    IN  IF next_direction # s.direction
        THEN [rotate(s, next_direction) EXCEPT !.branch = "route_rotate"]
        ELSE IF has_cell(s.env, step_from(s.position, s.direction))
             THEN [move_forward(s) EXCEPT
                      !.current_path = SomePath(Tail(s.current_path.steps)),
                      !.branch = "route_move"]
             ELSE [move_forward(s) EXCEPT
                      !.current_path = NoPath,
                      !.branch = "route_blocked"]

\* Variant of the last step of decide_action without the activation
\* threshold: the agent always rotates or moves.
act_on_choice_no_threshold(s, choice) ==
    IF choice.best_direction # s.direction
    THEN [rotate(s, choice.best_direction) EXCEPT !.branch = "explore_rotate"]
    ELSE [move_forward(s) EXCEPT !.branch = "explore_move"]

\* The last step of decide_action ("Otherwise, choose best move based on
\* utility"), given the result of decide_next_move.
act_on_choice(s, choice) ==
    IF choice.best_utility < 50 * UtilityScale(s)
    THEN [s EXCEPT !.branch = "idle"]
    ELSE IF choice.best_direction # s.direction
         THEN [rotate(s, choice.best_direction) EXCEPT !.branch = "explore_rotate"]
         ELSE [move_forward(s) EXCEPT !.branch = "explore_move"]

\* Variant of the last step of decide_action that moves forward in the
\* same tick in which it has rotated.
explore_step_turn_and_move(s) ==
    IF decide_next_move(s).best_utility < 50 * UtilityScale(s)
    THEN [s EXCEPT !.branch = "idle"]
    ELSE IF decide_next_move(s).best_direction # s.direction
         THEN [move_forward(rotate(s, decide_next_move(s).best_direction))
                  EXCEPT !.branch = "explore_rotate"]
         ELSE [move_forward(s) EXCEPT !.branch = "explore_move"]

explore_step(s) == act_on_choice(s, decide_next_move(s))

RECURSIVE decide_action(_)

\* Variant of the part of decide_action after find_path_to_dirt that does
\* nothing for the rest of the tick when there is no route.
route_or_explore_stall(s, path) ==
    IF path.found /\ path.path # << >>
    THEN decide_action([s EXCEPT !.current_path = SomePath(path.path)])
    ELSE {[s EXCEPT !.branch = "idle"]}

\* decide_action: the set of agents the call can end in, one for every
\* cell find_path_to_dirt can pick as closest_dirt.  The call re-enters
\* itself after it has installed a route.  controller is the part of the
\* call after the clean step; route_or_explore is the part after
\* find_path_to_dirt has returned path.
route_or_explore(s, path) ==
    IF path.found /\ path.path # << >>
    THEN decide_action([s EXCEPT !.current_path = SomePath(path.path)])
    ELSE {explore_step(s)}

\* Variant of the controller whose first re-entered call overlooks the
\* route just installed.
controller_overlooks_route(s) ==
    IF path_truthy(s.current_path) /\ s.entries # 2
    THEN {follow_step(s)}
    ELSE IF s.dirty_cells # {}
            /\ curiosity_below_threshold(calculate_curiosity_factor(s))
         THEN UNION { route_or_explore([s EXCEPT !.searches = @ + 1],
                                       find_path_to_dirt(s, closest_dirt))
                      : closest_dirt \in closest_dirt_candidates(s) }
         ELSE {explore_step(s)}

controller(s) ==
    IF path_truthy(s.current_path)
    THEN {follow_step(s)}
    ELSE IF s.dirty_cells # {}
            /\ curiosity_below_threshold(calculate_curiosity_factor(s))
         THEN UNION { route_or_explore([s EXCEPT !.searches = @ + 1],
                                       find_path_to_dirt(s, closest_dirt))
                      : closest_dirt \in closest_dirt_candidates(s) }
         ELSE {explore_step(s)}

decide_action(s) ==
    controller(clean_step(update_memory([s EXCEPT !.entries = @ + 1])))

\* ------------------------------------------------------------------------
\* Configurations: the settings file and the area file of a run
\* ------------------------------------------------------------------------

make_settings(ticks, rotation, move) ==
    [time_duration |-> ticks, rotation_power |-> rotation, move_power |-> move,
     normal_vacuum_power |-> 2, heavy_vacuum_power |-> 3, time_power |-> 1,
     sensor_power |-> 5, other_power |-> 1]

Cells(w, h) == (0..(w - 1)) \X (0..(h - 1))

\* A w x h area whose height deltas are all zero except those of the
\* entries of steep, a set of <<cell, delta key, delta>>.
make_area(w, h, dust, steep) ==
    LET delta(c, k) ==
            IF \E e \in steep : e[1] = c /\ e[2] = k
            THEN (CHOOSE e \in steep : e[1] = c /\ e[2] = k)[3]
            ELSE 0
    IN  [c \in Cells(w, h) |->
            load_cell(delta(c, "delta_l"), delta(c, "delta_r"),
                      delta(c, "delta_u"), delta(c, "delta_d"), dust[c])]

\* Dust weights of the small areas: clean, removed by normal suction,
\* removed by heavy suction only, beyond both.
DustLevels == {0, 1, 2, 6}

\* Height deltas of the one non-flat edge of a small area: the greatest
\* safe one and two unsafe ones.
SteepDeltas == {3, -4, 10}

SmallDims == {<<1, 1>>, <<2, 1>>, <<1, 2>>, <<2, 2>>}

\* The <<cell, delta key>> pairs of the edges between two cells of the area.
InnerEdges(w, h) ==
    {e \in Cells(w, h) \X Direction : step_from(e[1], e[2]) \in Cells(w, h)}

\* The small areas: flat, or flat but for one edge between two cells.
SmallAreas ==
    UNION { UNION { { make_area(dim[1], dim[2], dust, steep) :
                        steep \in {{}} \cup
                            {{<<e[1], delta_key(e[2]), d>>} :
                                e \in InnerEdges(dim[1], dim[2]), d \in SteepDeltas} }
                    : dust \in [Cells(dim[1], dim[2]) -> DustLevels] }
            : dim \in SmallDims }

\* A 2 x 5 area with four dirty cells and one unsafe edge.
CorridorArea ==
    make_area(2, 5,
              [c \in Cells(2, 5) |->
                  IF c \in {<<0, 2>>, <<0, 4>>, <<1, 0>>, <<1, 4>>} THEN 2 ELSE 0],
              {<<<<0, 1>>, "delta_d", 10>>})

Configurations ==
    {[settings |-> make_settings(MaxTicks, 1, 1), env |-> a] : a \in SmallAreas}
    \cup {[settings |-> make_settings(ScenarioTicks, 1, 1), env |-> CorridorArea]}

\* ------------------------------------------------------------------------
\* The simulation (Main.run_simulation)
\* ------------------------------------------------------------------------

VARIABLES
    vacuum,   \* the VacuumAgent and the Environment it is run on
    step,     \* the loop variable of the main simulation loop
    pc,       \* "loop" while the main loop runs, "done" after the final report
    turns,    \* observer: quarter-turns the agent has made so far
    moves     \* observer: cells the agent has advanced so far

vars == <<vacuum, step, pc, turns, moves>>

max_ticks == vacuum.settings.time_duration

\* Quarter-turns between two headings, counted on the compass.
TurnsBetween(d1, d2) ==
    LET index(d) == CHOOSE i \in 1..4 : directions[i] = d
        clockwise == (index(d2) - index(d1)) % 4
    IN  Min(clockwise, 4 - clockwise)

Init ==
    /\ \E cfg \in Configurations : vacuum = new_agent(cfg.settings, cfg.env)
    /\ step = 0
    /\ pc = "loop"
    /\ turns = 0
    /\ moves = 0

\* One round of the main simulation loop: vacuum.decide_action(environment).
Tick ==
    /\ pc = "loop"
    /\ step < max_ticks
    /\ vacuum' \in decide_action([vacuum EXCEPT !.tick = step, !.entries = 0,
                                                !.searches = 0, !.branch = "none"])
    /\ step' = step + 1
    /\ pc' = pc
    /\ turns' = turns + TurnsBetween(vacuum.direction, vacuum'.direction)
    /\ moves' = moves + manhattan_distance(vacuum.position, vacuum'.position)

\* The loop is over: the final results are printed.
Finish ==
    /\ pc = "loop"
    /\ step >= max_ticks
    /\ pc' = "done"
    /\ UNCHANGED <<vacuum, step, turns, moves>>

Next == Tick \/ Finish

Spec == Init /\ [][Next]_vars

\* ------------------------------------------------------------------------
\* Properties
\* ------------------------------------------------------------------------

\* The position a list of unit moves leads to.
RECURSIVE Walk(_, _)
Walk(pos, path) ==
    IF path = << >> THEN pos ELSE Walk(step_from(pos, Head(path)), Tail(path))

\* The <<cell, direction>> steps of a list of unit moves started at pos.
RECURSIVE StepsOf(_, _)
StepsOf(pos, path) ==
    IF path = << >> THEN {}
    ELSE {<<pos, Head(path)>>} \cup StepsOf(step_from(pos, Head(path)), Tail(path))

\* An edge the router's contract allows: the destination is mapped and the
\* height delta recorded at the source for the direction is at most the
\* safety threshold in magnitude.
Traversable(s, c, d) ==
    /\ step_from(c, d) \in DOMAIN s.map
    /\ c \in DOMAIN s.map
    /\ delta_key(d) \in DOMAIN s.map[c]
    /\ s.map[c][delta_key(d)] <= MAX_SAFE_HEIGHT
    /\ s.map[c][delta_key(d)] >= -MAX_SAFE_HEIGHT

\* Length of a shortest path of traversable edges from the cells of
\* frontier (at distance n from the start) to target, or -1 if there is none.
RECURSIVE Layers(_, _, _, _, _)
Layers(s, target, frontier, seen, n) ==
    IF target \in frontier THEN n
    ELSE IF frontier = {} THEN -1
    ELSE LET next == {step_from(c, d) : c \in frontier, d \in Direction}
             reached == {q \in next : \E c \in frontier, d \in Direction :
                                          q = step_from(c, d) /\ Traversable(s, c, d)}
         IN  Layers(s, target, reached \ seen, seen \cup reached, n + 1)

ShortestDistance(s, target) == Layers(s, target, {s.position}, {s.position}, 0)

\* The area is flat: every height delta is zero.
FlatArea(env) ==
    \A c \in DOMAIN env :
        env[c].delta_l = 0 /\ env[c].delta_r = 0 /\ env[c].delta_u = 0 /\ env[c].delta_d = 0

\* The area is an N x N square.
SquareArea(env) == \E n \in 1..5 : DOMAIN env = Cells(n, n)

\* The map holds every cell of the area with all four of its height deltas.
MapComplete(s) ==
    \A c \in DOMAIN s.env :
        /\ c \in DOMAIN s.map
        /\ \A d \in Direction : delta_key(d) \in DOMAIN s.map[c]

\* What a round of the main loop and the end of the loop do to the loop
\* variable and to pc.  Every step of Next that changes step is a Tick and
\* every step that changes pc is a Finish; decide_action returns from every
\* call, so a round is possible whenever the loop variable allows one.
LoopRound == pc = "loop" /\ step < max_ticks /\ step' = step + 1

LoopExit == pc = "loop" /\ step >= max_ticks /\ pc' = "done"

\* The main loop of run_simulation runs every one of its rounds and the
\* final report is printed.
FairSpec == Spec /\ WF_step(LoopRound) /\ WF_pc(LoopExit)

\* C1 (as claimed): the dirty set and the cleaned set of the agent are
\* disjoint in every reachable state.
C1_DirtyCleanedDisjoint ==
    vacuum.dirty_cells \cap vacuum.cleaned_cells = {}

\* C2 (as claimed): on a flat N x N area, a_star_pathfind to any target of
\* the map returns a route whose length is the Manhattan distance from the
\* agent's position to the target.
C2_RouteLengthIsManhattan ==
    (FlatArea(vacuum.env) /\ SquareArea(vacuum.env)) =>
        \A target \in DOMAIN vacuum.map :
            LET r == a_star_pathfind(vacuum, target)
            IN  r.found /\ Len(r.path) = manhattan_distance(vacuum.position, target)

\* C2 (amended): on a flat N x N area, a_star_pathfind to any target of the
\* map returns no route or a route at least as long as the Manhattan
\* distance from the agent's position to the target; when the map holds
\* every cell of the area with all four height deltas, it returns a route
\* whose length is exactly that distance.
C2_RouteLengthOnFlatArea ==
    (FlatArea(vacuum.env) /\ SquareArea(vacuum.env)) =>
        \A target \in DOMAIN vacuum.map :
            LET r == a_star_pathfind(vacuum, target)
                m == manhattan_distance(vacuum.position, target)
            IN  /\ r.found => Len(r.path) >= m
                /\ MapComplete(vacuum) => (r.found /\ Len(r.path) = m)

\* C2 witness: on a flat 2 x 2 area the map is complete and the router
\* returns a two-step route to the cell diagonally opposite the agent.
C2_Witness ==
    /\ FlatArea(vacuum.env) /\ DOMAIN vacuum.env = Cells(2, 2)
    /\ MapComplete(vacuum)
    /\ \E target \in DOMAIN vacuum.map :
          /\ manhattan_distance(vacuum.position, target) = 2
          /\ a_star_pathfind(vacuum, target).found
          /\ Len(a_star_pathfind(vacuum, target).path) = 2

\* C3 (as claimed): whenever a path of traversable edges leads from the
\* agent's position to a target, a_star_pathfind returns a route, the route
\* leads from the position to the target, and no such path is shorter.
C3_RouteIsShortest ==
    \A target \in DOMAIN vacuum.map :
        LET shortest == ShortestDistance(vacuum, target)
            r == a_star_pathfind(vacuum, target)
        IN  shortest >= 0 =>
                /\ r.found
                /\ Walk(vacuum.position, r.path) = target
                /\ Len(r.path) <= shortest

\* C4: every step of a route returned by a_star_pathfind goes to a mapped
\* cell over an edge whose height delta, as recorded in the map at the
\* source of the step, is at most MAX_SAFE_HEIGHT in magnitude.
C4_RouteAvoidsUnsafeEdges ==
    \A target \in DOMAIN vacuum.map :
        LET r == a_star_pathfind(vacuum, target)
        IN  r.found =>
                \A e \in StepsOf(vacuum.position, r.path) : Traversable(vacuum, e[1], e[2])

\* C4 witness: the map records an unsafe height delta on the edge from a
\* cell to a neighbouring cell that holds known dirt, and the router
\* returns a route to that dirty cell which goes round the edge.
C4_Witness ==
    \E c \in DOMAIN vacuum.map, d \in Direction :
        LET target == step_from(c, d)
            r == a_star_pathfind(vacuum, target)
        IN  /\ delta_key(d) \in DOMAIN vacuum.map[c]
            /\ vacuum.map[c][delta_key(d)] = 10
            /\ target \in vacuum.dirty_cells
            /\ r.found
            /\ Len(r.path) >= 1
            /\ c \in {e[1] : e \in StepsOf(vacuum.position, r.path)}

\* C5: when the height delta of the agent's current cell in a direction
\* exceeds MAX_SAFE_HEIGHT in magnitude, the utility of moving in that
\* direction is exactly the fixed penalty -100.
C5_UnsafeMoveGetsPenalty ==
    \A d \in Direction :
        ( /\ has_cell(vacuum.env, vacuum.position)
          /\ \/ vacuum.env[vacuum.position][delta_key(d)] > MAX_SAFE_HEIGHT
             \/ vacuum.env[vacuum.position][delta_key(d)] < -MAX_SAFE_HEIGHT )
        => calculate_move_utility(vacuum, d) = -100 * UtilityScale(vacuum)

\* C5 witness: the agent stands before an unsafe edge whose destination is
\* a cell with known dirt that it has never visited.
C5_Witness ==
    \E d \in Direction :
        LET target == step_from(vacuum.position, d)
        IN  /\ vacuum.time > 0
            /\ \/ vacuum.env[vacuum.position][delta_key(d)] > MAX_SAFE_HEIGHT
               \/ vacuum.env[vacuum.position][delta_key(d)] < -MAX_SAFE_HEIGHT
            /\ target \in vacuum.dirty_cells
            /\ target \notin DOMAIN vacuum.visit_count
            /\ calculate_move_utility(vacuum, d) = -100 * UtilityScale(vacuum)

\* The scenario of C6: a 2 x 2 area whose cell (1,0) holds dust weight 2,
\* and a step of the simulation that is one decision cycle.
C6_Scenario ==
    /\ DOMAIN vacuum.env = Cells(2, 2)
    /\ vacuum.env[<<1, 0>>].dust_weight = 2
    /\ step' = step + 1

\* C6 (as claimed): in the scenario, after a decision cycle performed
\* while the agent is facing cell (1,0), the dust weight of that cell is 0
\* and the cell is marked cleaned.
C6_FacedCellIsCleaned ==
    [][ (C6_Scenario /\ step_from(vacuum.position, vacuum.direction) = <<1, 0>>)
        => (vacuum'.env[<<1, 0>>].dust_weight = 0 /\ vacuum'.env[<<1, 0>>].cleaned) ]_vars

\* C6 (amended): in the scenario, after a decision cycle performed while
\* the agent stands on cell (1,0), the dust weight of that cell is 0 and
\* the cell is marked cleaned.
C6_OccupiedCellIsCleaned ==
    [][ (C6_Scenario /\ vacuum.position = <<1, 0>>)
        => (vacuum'.env[<<1, 0>>].dust_weight = 0 /\ vacuum'.env[<<1, 0>>].cleaned) ]_vars

\* C6 witness: on a 2 x 2 area, cell (1,0) was read with dust weight 2, has
\* been charged a normal and a heavy suction in the same tick, and now has
\* dust weight 0 and is marked cleaned.
C6_Witness ==
    /\ DOMAIN vacuum.env = Cells(2, 2)
    /\ <<1, 0>> \in DOMAIN vacuum.map
    /\ vacuum.map[<<1, 0>>].dust_weight = 2
    /\ \E t \in 0..vacuum.tick :
          /\ <<<<1, 0>>, "normal", t>> \in vacuum.sucks
          /\ <<<<1, 0>>, "heavy", t>> \in vacuum.sucks
    /\ vacuum.env[<<1, 0>>].dust_weight = 0
    /\ vacuum.env[<<1, 0>>].cleaned

\* C7: with the agent's position in the cleaned set, suck_dust and the
\* clean step of decide_action charge no suction energy and leave the
\* environment as it is; and no cell is charged suction energy in more
\* than one tick.
C7_CleanChargesOnce ==
    /\ vacuum.position \in vacuum.cleaned_cells =>
          /\ \A pressure \in {"normal", "heavy"} :
                /\ suck_dust(vacuum, pressure).power_consumed = vacuum.power_consumed
                /\ suck_dust(vacuum, pressure).env = vacuum.env
          /\ clean_step(vacuum).power_consumed = vacuum.power_consumed
          /\ clean_step(vacuum).env = vacuum.env
    /\ \A a \in vacuum.sucks, b \in vacuum.sucks : a[1] = b[1] => a[3] = b[3]

\* C7 witness: the agent is back, in a later tick, on a cell that it has
\* cleaned and that still holds dust in the environment.
C7_Witness ==
    /\ vacuum.position \in vacuum.cleaned_cells
    /\ vacuum.env[vacuum.position].dust_weight > 0
    /\ vacuum.visit_count[vacuum.position] >= 2
    /\ \E e \in vacuum.sucks : e[1] = vacuum.position /\ e[3] < vacuum.tick

\* Number of suction charges of a pressure level made so far.
SuctionCharges(pressure) == Cardinality({e \in vacuum.sucks : e[2] = pressure})

\* C8 (as claimed): the energy consumed is the sum of the rotation costs,
\* the movement costs and the sensing costs charged so far, and nothing else.
C8_PowerIsRotationMoveSensing ==
    vacuum.power_consumed =
        vacuum.settings.rotation_power * turns
        + vacuum.settings.move_power * moves
        + vacuum.settings.sensor_power * vacuum.sensor_reads

\* C8 (amended): the energy consumed is the sum of the rotation costs, the
\* movement costs, the sensing costs and the suction costs (normal and
\* heavy) charged so far, and nothing else.
C8_PowerIsSumOfCharges ==
    vacuum.power_consumed =
        vacuum.settings.rotation_power * turns
        + vacuum.settings.move_power * moves
        + vacuum.settings.sensor_power * vacuum.sensor_reads
        + vacuum.settings.normal_vacuum_power * SuctionCharges("normal")
        + vacuum.settings.heavy_vacuum_power * SuctionCharges("heavy")

\* C8 witness: the agent has made two quarter-turns or more, moved, sensed
\* and sucked.
C8_Witness ==
    /\ turns >= 2
    /\ moves >= 1
    /\ vacuum.sensor_reads >= 1
    /\ SuctionCharges("normal") >= 1
    /\ SuctionCharges("heavy") >= 1
    /\ vacuum.branch \in {"route_rotate", "explore_rotate"}

\* C9: with non-negative energy rates, the energy consumed is never
\* negative and never decreases from one decision cycle to the next.
C9_PowerNeverDecreases ==
    [][ (\A f \in SettingsFields : vacuum.settings[f] >= 0)
        => /\ vacuum.power_consumed >= 0
           /\ vacuum'.power_consumed >= vacuum.power_consumed ]_vars

\* C9 witness: the agent has cleaned, turned and moved, has installed and
\* followed a route, and has just spent an idle tick.
C9_Witness ==
    /\ vacuum.branch = "idle"
    /\ turns >= 1
    /\ moves >= 1
    /\ vacuum.sucks # {}
    /\ vacuum.current_path.present
    /\ vacuum.power_consumed > 0

\* C10 (as claimed): when the dirty set is empty and every cell of the
\* area is in the map, calculate_curiosity_factor returns 1.0.
C10_CuriosityIsMaximal ==
    ( /\ vacuum.dirty_cells = {}
      /\ \A c \in DOMAIN vacuum.env : c \in DOMAIN vacuum.map )
    => calculate_curiosity_factor(vacuum).num = calculate_curiosity_factor(vacuum).den

\* The dirty set is empty and the map holds every cell of the area, so that
\* no mapped cell has a neighbour on the grid left to discover.
NothingLeftToDo(s) ==
    /\ s.dirty_cells = {}
    /\ s.map # << >>
    /\ \A c \in DOMAIN s.env : c \in DOMAIN s.map

\* Round n of the main loop was an idle one: the best of the four
\* utilities was below the activation threshold 50 and the agent neither
\* rotated nor moved.
IdleRound(n) ==
    /\ step = n + 1
    /\ vacuum.tick = n
    /\ vacuum.branch = "idle"
    /\ decide_next_move(vacuum).best_utility < 50 * UtilityScale(vacuum)

\* C11: from any reachable state with an empty dirty set and a fully known
\* map in which the main loop has a round left to run, the repeated
\* decide_action calls lead to an idle round (best utility below 50, no
\* action taken): the last round of the run is one.
C11_EventuallyIdle ==
    (NothingLeftToDo(vacuum) /\ pc = "loop" /\ step < max_ticks)
        ~> IdleRound(max_ticks - 1)

\* C11 witness: on an area of two cells, both known and free of dust, the
\* agent has spent its third round or a later one idle.
C11_Witness ==
    /\ Cardinality(DOMAIN vacuum.env) = 2
    /\ NothingLeftToDo(vacuum)
    /\ \E n \in 2..MaxTicks : IdleRound(n)
    /\ moves = 0 /\ turns = 0

\* Suction capacities get_sucked is applied with: those of
\* MAX_SUCTION_WEIGHT and the values around the dust weights of the areas.
Pressures == 0..7

AfterCleanStep ==
    clean_step(update_memory([vacuum EXCEPT !.tick = step, !.entries = 1,
                                            !.searches = 0, !.branch = "none"]))

\* The controller of decide_action, run on s, looks for a route to dirt.
SearchesRoute(s) ==
    /\ ~path_truthy(s.current_path)
    /\ s.dirty_cells # {}
    /\ curiosity_below_threshold(calculate_curiosity_factor(s))

\* No path of edges that the map of s records as safe leads from the
\* position of s to target.
Unreachable(s, target) == ShortestDistance(s, target) = -1

\* C13: in a round where the controller looks for a route and the dirty
\* cell find_path_to_dirt picks is unreachable under the map, the router
\* returns no route and the rest of the call is the utility-based step;
\* when every nearest dirty cell is unreachable, the round ends with no
\* active route, after one search and one entry of decide_action, in the
\* state the utility-based step yields (idle, rotated or moved).
C13_NoRouteFallsBackToUtility ==
    [][ (step' = step + 1 /\ SearchesRoute(AfterCleanStep)) =>
          LET s2 == AfterCleanStep
              s3 == [s2 EXCEPT !.searches = 1]
              nearest == closest_dirt_candidates(s2)
          IN  /\ \A c \in nearest :
                    Unreachable(s2, c) =>
                        /\ ~find_path_to_dirt(s2, c).found
                        /\ route_or_explore(s3, find_path_to_dirt(s2, c)) = {explore_step(s3)}
              /\ (\A c \in nearest : Unreachable(s2, c)) =>
                    /\ vacuum' = explore_step(s3)
                    /\ ~path_truthy(vacuum'.current_path)
                    /\ vacuum'.searches = 1
                    /\ vacuum'.entries = 1
                    /\ vacuum'.branch \in {"idle", "explore_rotate", "explore_move"} ]_vars

\* C13 witness: the round just run searched once for a route to a nearest
\* dirty cell, other than the agent's own, that no recorded safe path
\* reaches, installed no route, and turned the agent by utility.
C13_Witness ==
    /\ vacuum.searches = 1
    /\ vacuum.entries = 1
    /\ vacuum.branch = "explore_rotate"
    /\ ~path_truthy(vacuum.current_path)
    /\ closest_dirt_candidates(vacuum) # {}
    /\ \A c \in closest_dirt_candidates(vacuum) :
          c # vacuum.position /\ Unreachable(vacuum, c)

\* What a tick that follows route does to the agent s, giving t: a
\* rotation to the first heading of the route, or a forward move that
\* consumes the first step of the route, or a failed move that discards
\* the route; the utility-based step is not taken.
FollowsRoute(route, s, t) ==
    IF route[1] # s.direction
    THEN /\ t.direction = route[1]
         /\ t.position = s.position
         /\ t.current_path = SomePath(route)
         /\ t.branch = "route_rotate"
    ELSE IF has_cell(s.env, step_from(s.position, route[1]))
         THEN /\ t.position = step_from(s.position, route[1])
              /\ t.direction = s.direction
              /\ t.current_path = SomePath(Tail(route))
              /\ t.branch = "route_move"
         ELSE /\ t.position = s.position
              /\ t.direction = s.direction
              /\ t.current_path = NoPath
              /\ t.branch = "route_blocked"

\* C14: a tick that starts with a non-empty active route, or installs
\* one, rotates the agent to the first heading of the route and keeps
\* route and position, or moves the agent one cell in that heading and
\* removes exactly the first step of the route, or, the move failing,
\* discards the route and keeps the position; it does not take the
\* utility-based step.
C14_RouteTick ==
    [][ step' = step + 1 =>
          /\ path_truthy(vacuum.current_path) =>
                /\ FollowsRoute(vacuum.current_path.steps, vacuum, vacuum')
                /\ vacuum'.entries = 1 /\ vacuum'.searches = 0
          /\ vacuum'.entries = 2 =>
                \E c \in closest_dirt_candidates(AfterCleanStep) :
                    /\ find_path_to_dirt(AfterCleanStep, c).path # << >>
                    /\ FollowsRoute(find_path_to_dirt(AfterCleanStep, c).path,
                                    vacuum, vacuum') ]_vars

\* C14 witness: the tick just run started with an active route, moved the
\* agent along it and left a non-empty rest of the route, and the agent
\* had rotated before.
C14_Witness ==
    /\ vacuum.branch = "route_move"
    /\ vacuum.entries = 1
    /\ vacuum.searches = 0
    /\ path_truthy(vacuum.current_path)
    /\ turns >= 1
    /\ moves >= 2

\* C15 (as claimed): the clean step charges the heavy suction on a cell
\* only if the dust of the cell is still positive after the normal
\* suction; a cell whose dust weight (as the map recorded it before the
\* clean) is within the normal capacity is charged the normal suction only.
C15_HeavyOnlyIfResidue ==
    \A e \in vacuum.sucks :
        e[2] = "heavy" => vacuum.map[e[1]].dust_weight > MAX_SUCTION_WEIGHT["normal"]

\* C16 (as claimed): a position is added to the cleaned set only in a
\* step after which its dust weight recorded in the map is zero and which
\* removes it from the dirty set, and every position whose recorded dust
\* weight is positive is in the dirty set.
C16_CleanedWhenRecordedDustIsZero ==
    [][ /\ \A p \in vacuum'.cleaned_cells \ vacuum.cleaned_cells :
              /\ p \in DOMAIN vacuum'.map
              /\ vacuum'.map[p].dust_weight = 0
              /\ p \in vacuum.dirty_cells
              /\ p \notin vacuum'.dirty_cells
        /\ \A p \in DOMAIN vacuum'.map :
              vacuum'.map[p].dust_weight > 0 => p \in vacuum'.dirty_cells ]_vars

\* C17 (as claimed): every round of the main loop advances the agent's
\* tick counter by exactly 1 and the visit count of the position the
\* agent had at the start of the round by exactly 1.
C17_MemoryUpdateOncePerTick ==
    [][ step' = step + 1 =>
          /\ vacuum'.time = vacuum.time + 1
          /\ vacuum'.visit_count[vacuum.position] =
                (IF vacuum.position \in DOMAIN vacuum.visit_count
                 THEN vacuum.visit_count[vacuum.position] ELSE 0) + 1 ]_vars

\* C18: a round of the main loop enters decide_action once or twice and
\* computes at most one route; it enters it twice only if the first call
\* found no active route and installed a non-empty one, and then the
\* second call follows the route (rotates or moves) and computes no other.
C18_ReentersAtMostOnce ==
    [][ step' = step + 1 =>
          /\ vacuum'.entries \in {1, 2}
          /\ vacuum'.searches \in {0, 1}
          /\ vacuum'.entries = 2 =>
                /\ SearchesRoute(AfterCleanStep)
                /\ \E c \in closest_dirt_candidates(AfterCleanStep) :
                      /\ find_path_to_dirt(AfterCleanStep, c).found
                      /\ find_path_to_dirt(AfterCleanStep, c).path # << >>
                /\ vacuum'.searches = 1
                /\ vacuum'.branch \in {"route_rotate", "route_move", "route_blocked"}
          /\ vacuum'.entries = 1 =>
                (vacuum'.searches = 1 =>
                    vacuum'.branch \in {"idle", "explore_rotate", "explore_move"}) ]_vars

\* C18 witness: the round just run entered decide_action twice, computed
\* one route and turned the agent to the first heading of that route, and
\* an earlier round had moved the agent.
C18_Witness ==
    /\ vacuum.entries = 2
    /\ vacuum.searches = 1
    /\ vacuum.branch = "route_rotate"
    /\ path_truthy(vacuum.current_path)
    /\ vacuum.direction = vacuum.current_path.steps[1]
    /\ moves >= 1

\* The canonical order of the headings: up, right, down, left.
CanonicalOrder == <<"NORTH", "EAST", "SOUTH", "WEST">>

\* C19: decide_next_move returns a heading together with its utility, the
\* utility is the greatest of the four, and every heading before the
\* returned one in the canonical order has a smaller utility.
C19_BestMoveIsFirstMaximum ==
    LET r == decide_next_move(vacuum)
        u == [d \in Direction |-> calculate_move_utility(vacuum, d)]
    IN  /\ r.best_direction \in Direction
        /\ r.best_utility = u[r.best_direction]
        /\ \A d \in Direction : u[d] <= r.best_utility
        /\ \A i \in 1..4, j \in 1..4 :
              (CanonicalOrder[j] = r.best_direction /\ i < j)
                  => u[CanonicalOrder[i]] < r.best_utility

\* C19 witness: after some rounds on a one-cell area all four headings
\* share the greatest utility (each move leaves the grid) and
\* decide_next_move returns the first heading of the canonical order.
C19_Witness ==
    /\ vacuum.time >= 2
    /\ \A d \in Direction :
          calculate_move_utility(vacuum, d) = decide_next_move(vacuum).best_utility
    /\ decide_next_move(vacuum).best_direction = CanonicalOrder[1]

\* The orders in which a loop can run over the cells of a set.
IterationOrders(S) ==
    {f \in [1..Cardinality(S) -> S] :
        \A i \in 1..Cardinality(S), j \in 1..Cardinality(S) : f[i] = f[j] => i = j}

\* A member of the dirty set of s at the least Manhattan distance from the
\* position of s.
NearestDirt(s, c) ==
    /\ c \in s.dirty_cells
    /\ \A q \in s.dirty_cells :
          manhattan_distance(s.position, c) <= manhattan_distance(s.position, q)

\* C20: whatever the order in which the loop of find_path_to_dirt runs
\* over the dirty set, the cell passed to the router is a member of the
\* dirty set at the least Manhattan distance from the agent's position;
\* and a route installed in a round leads to such a cell.
C20_TargetIsNearestDirt ==
    [][ step' = step + 1 =>
          LET s2 == AfterCleanStep
          IN  /\ \A order \in IterationOrders(s2.dirty_cells) :
                    s2.dirty_cells # {} =>
                       /\ NearestDirt(s2, closest_dirt_scan(s2, order, << >>, 0))
                       /\ closest_dirt_scan(s2, order, << >>, 0)
                             \in closest_dirt_candidates(s2)
              /\ \A c \in closest_dirt_candidates(s2) :
                    /\ NearestDirt(s2, c)
                    /\ \E order \in IterationOrders(s2.dirty_cells) :
                          closest_dirt_scan(s2, order, << >>, 0) = c
              /\ vacuum'.entries = 2 =>
                    NearestDirt(s2, Walk(vacuum'.position, vacuum'.current_path.steps)) ]_vars

\* C20 witness: the dirty set holds cells at different distances from the
\* agent, two of them at the least distance, and the round just run
\* installed a route to one of these and turned the agent towards it.
C20_Witness ==
    /\ vacuum.entries = 2
    /\ vacuum.branch = "route_rotate"
    /\ Cardinality(closest_dirt_candidates(vacuum)) >= 2
    /\ closest_dirt_candidates(vacuum) # vacuum.dirty_cells
    /\ Walk(vacuum.position, vacuum.current_path.steps) \in closest_dirt_candidates(vacuum)

\* C21: in a round with no active route after the clean step and no route
\* installed, if the best of the four utilities is below 50 the agent's
\* position, heading and route are what they were and no rotation or
\* movement energy is charged; otherwise the agent either rotates to the
\* best heading, when it does not face it, and stays where it is, or,
\* when it faces it, attempts one forward move and keeps its heading.
C21_UtilityStep ==
    [][ ( /\ step' = step + 1
          /\ ~path_truthy(AfterCleanStep.current_path)
          /\ vacuum'.entries = 1 ) =>
          LET s2 == AfterCleanStep
              best == decide_next_move(s2)
              ahead == step_from(vacuum.position, vacuum.direction)
          IN  /\ vacuum'.current_path = vacuum.current_path
              /\ IF best.best_utility < 50 * UtilityScale(s2)
                 THEN /\ vacuum'.position = vacuum.position
                      /\ vacuum'.direction = vacuum.direction
                      /\ vacuum'.power_consumed = s2.power_consumed
                      /\ turns' = turns /\ moves' = moves
                      /\ vacuum'.branch = "idle"
                 ELSE IF best.best_direction # vacuum.direction
                 THEN /\ vacuum'.position = vacuum.position
                      /\ vacuum'.direction = best.best_direction
                      /\ vacuum'.power_consumed = s2.power_consumed
                            + vacuum.settings.rotation_power
                              * TurnsBetween(vacuum.direction, best.best_direction)
                      /\ moves' = moves
                      /\ vacuum'.branch = "explore_rotate"
                 ELSE /\ vacuum'.direction = vacuum.direction
                      /\ turns' = turns
                      /\ vacuum'.branch = "explore_move"
                      /\ IF has_cell(vacuum.env, ahead)
                         THEN /\ vacuum'.position = ahead
                              /\ vacuum'.power_consumed
                                    = s2.power_consumed + vacuum.settings.move_power
                         ELSE /\ vacuum'.position = vacuum.position
                              /\ vacuum'.power_consumed = s2.power_consumed ]_vars

\* C21 witness: the agent has spent an idle round, a round in which it
\* rotated by utility and a round in which it moved by utility; the round
\* just run is the idle one, and it followed a search that found no route.
C21_Witness ==
    /\ vacuum.branch = "idle"
    /\ vacuum.entries = 1
    /\ vacuum.searches = 1
    /\ turns >= 1
    /\ moves >= 1
    /\ ~vacuum.current_path.present

\* The cells a sensing pass at position pos with heading d reads: pos and
\* its neighbours ahead, to the left and to the right.
SensedCells(pos, d) ==
    {pos, step_from(pos, d), step_from(pos, left(d)), step_from(pos, right(d))}

\* C22: every position of the map is a cell of the grid; a round adds to
\* the map exactly the grid cells among the agent's position at the start
\* of the round and the neighbours ahead, left and right of it at its
\* heading then (so no entry for a neighbour off the grid, and none for
\* the cell behind); and no round removes a key of the map.
C22_MapHoldsSensedGridCells ==
    [][ step' = step + 1 =>
          /\ DOMAIN vacuum.map \subseteq DOMAIN vacuum.env
          /\ DOMAIN vacuum'.map \subseteq DOMAIN vacuum'.env
          /\ DOMAIN vacuum.map \subseteq DOMAIN vacuum'.map
          /\ DOMAIN vacuum'.map =
                DOMAIN vacuum.map
                \cup (SensedCells(vacuum.position, vacuum.direction) \cap DOMAIN vacuum.env)
          /\ vacuum.position \in DOMAIN vacuum.env ]_vars

\* C22 witness: the agent has moved; its map holds a cell it has read as a
\* neighbour and never stood on, lacks a cell of the grid, and a neighbour
\* of its position lies off the grid.
C22_Witness ==
    /\ moves >= 1
    /\ \E c \in DOMAIN vacuum.map : c \notin DOMAIN vacuum.visit_count
    /\ \E c \in DOMAIN vacuum.env : c \notin DOMAIN vacuum.map
    /\ \E d \in Direction : step_from(vacuum.position, d) \notin DOMAIN vacuum.env
    /\ DOMAIN vacuum.visit_count \subseteq DOMAIN vacuum.map

\* The height delta the grid holds at cell c in direction d is one the
\* agent may cross.
SafeEdge(env, c, d) ==
    /\ env[c][delta_key(d)] <= MAX_SAFE_HEIGHT
    /\ env[c][delta_key(d)] >= -MAX_SAFE_HEIGHT

\* C23: the agent's position is always a cell of the grid, and a round
\* that changes it moves the agent one cell in the heading it has, across
\* an edge whose height delta in the grid, at the cell it leaves, is at
\* most MAX_SAFE_HEIGHT in magnitude.
C23_MovesAreSafeSteps ==
    [][ step' = step + 1 =>
          /\ vacuum.position \in DOMAIN vacuum.env
          /\ vacuum'.position \in DOMAIN vacuum'.env
          /\ vacuum'.position # vacuum.position =>
                /\ vacuum'.direction = vacuum.direction
                /\ vacuum'.position = step_from(vacuum.position, vacuum.direction)
                /\ SafeEdge(vacuum.env, vacuum.position, vacuum.direction)
                /\ vacuum'.branch \in {"route_move", "explore_move"} ]_vars

\* C23 witness: the agent has just followed a route across an edge of
\* height delta 3, the greatest safe one, and had moved before.
C23_Witness ==
    /\ vacuum.branch = "route_move"
    /\ \E c \in DOMAIN vacuum.env :
          /\ step_from(c, vacuum.direction) = vacuum.position
          /\ vacuum.env[c][delta_key(vacuum.direction)] = MAX_SAFE_HEIGHT
    /\ moves >= 2

\* An upper bound on the rounds the agent s needs to finish its route: a
\* rotation and a move for every step, less the rotation of the first
\* step when the agent already faces it.
RouteRoundsLeft(s) ==
    IF ~path_truthy(s.current_path) THEN 0
    ELSE 2 * Len(s.current_path.steps)
         - (IF s.current_path.steps[1] = s.direction THEN 1 ELSE 0)

\* C24: a round run with a non-empty route installed never fails its
\* forward move and never discards the route; it rotates or consumes one
\* step, leaves the cell the route leads to unchanged and brings the end
\* of the route nearer; and with the rounds the route needs still to run,
\* the route becomes empty, the agent then standing on the cell the route
\* led to.
C24_RouteIsFollowedToItsEnd ==
    /\ [][ (step' = step + 1 /\ path_truthy(vacuum.current_path)) =>
             /\ vacuum'.branch \in {"route_rotate", "route_move"}
             /\ vacuum'.current_path.present
             /\ Walk(vacuum'.position, vacuum'.current_path.steps)
                   = Walk(vacuum.position, vacuum.current_path.steps)
             /\ RouteRoundsLeft(vacuum') < RouteRoundsLeft(vacuum)
             /\ vacuum'.branch = "route_move" =>
                   vacuum'.position = step_from(vacuum.position, vacuum.direction) ]_vars
    /\ [](vacuum.branch # "route_blocked")
    /\ (path_truthy(vacuum.current_path)
           /\ pc = "loop" /\ step + RouteRoundsLeft(vacuum) <= max_ticks)
          ~> (vacuum.current_path.present /\ vacuum.current_path.steps = << >>
                 /\ vacuum.branch = "route_move")

\* C24 witness: a route of several steps installed in an earlier round
\* has just been finished: the route is the empty list, the last round
\* moved the agent along it, and the agent stands on a dirty cell.
C24_Witness ==
    /\ vacuum.current_path.present
    /\ vacuum.current_path.steps = << >>
    /\ vacuum.branch = "route_move"
    /\ vacuum.entries = 1
    /\ vacuum.position \in vacuum.dirty_cells
    /\ moves >= 2
    /\ turns >= 1

\* C25: the dust weight the map records for a position never changes
\* after its first reading, whatever the agent does to the cell in the
\* grid; no position ever leaves the dirty set; and every position of the
\* cleaned set is in the dirty set.
C25_RecordedDustIsFrozen ==
    [][ /\ \A p \in DOMAIN vacuum.map :
              /\ p \in DOMAIN vacuum'.map
              /\ vacuum'.map[p].dust_weight = vacuum.map[p].dust_weight
        /\ vacuum.dirty_cells \subseteq vacuum'.dirty_cells
        /\ vacuum.cleaned_cells \subseteq vacuum.dirty_cells
        /\ vacuum'.cleaned_cells \subseteq vacuum'.dirty_cells ]_vars

\* C25 witness: the agent has cleaned a cell to dust weight 0 in the grid
\* in an earlier round, has since moved on and come back to sense it
\* again, and its map still records the positive weight of the first
\* reading; the cell is in the cleaned set and in the dirty set.
C25_Witness ==
    \E p \in vacuum.cleaned_cells :
        /\ vacuum.env[p].dust_weight = 0
        /\ vacuum.map[p].dust_weight > 0
        /\ p \in vacuum.dirty_cells
        /\ vacuum.position = p
        /\ vacuum.visit_count[p] >= 2
        /\ \E e \in vacuum.sucks : e[1] = p /\ e[3] + 2 <= vacuum.tick
        /\ moves >= 2

\* The curiosity factor of the agent s is at least 0.1, at most 1.0 and
\* below 0.7.
CuriosityInRange(s) ==
    LET c == calculate_curiosity_factor(s)
    IN  /\ c.den > 0
        /\ 10 * c.num >= c.den
        /\ c.num <= c.den
        /\ 10 * c.num < 7 * c.den

\* C26: the curiosity factor is in [0.1, 1.0] and below 0.7 in every
\* reachable state and where the controller of a round evaluates it; and
\* a round whose controller finds no active route and a non-empty dirty
\* set computes a route.
C26_DirtKnownMeansSearch ==
    [][ /\ CuriosityInRange(vacuum)
        /\ CuriosityInRange(vacuum')
        /\ step' = step + 1 =>
              /\ CuriosityInRange(AfterCleanStep)
              /\ ( /\ ~path_truthy(AfterCleanStep.current_path)
                   /\ AfterCleanStep.dirty_cells # {} )
                 => (SearchesRoute(AfterCleanStep) /\ vacuum'.searches = 1)
              /\ vacuum'.searches = 1 =>
                    ( /\ ~path_truthy(AfterCleanStep.current_path)
                      /\ AfterCleanStep.dirty_cells # {} ) ]_vars

\* C26 witness: every cell of the map has been cleaned, so that the
\* cleaning ratio is 1, the map has several cells, no route is active,
\* and the round just run computed a route.
C26_Witness ==
    /\ Cardinality(DOMAIN vacuum.map) >= 2
    /\ vacuum.cleaned_cells = DOMAIN vacuum.map
    /\ ~path_truthy(vacuum.current_path)
    /\ vacuum.searches = 1
    /\ CuriosityInRange(vacuum)

====
